---- MODULE Spec2Model ----
(***************************************************************************)
(* Model of the Image Info Extractor: the App orchestrator (handleScan,    *)
(* handleReset, getPageImage), the gemini service (detectVisualElements,   *)
(* explainExtractedImage), the InputArea form and the LivePreview gallery  *)
(* with its ExplanationPanel.                                              *)
(*                                                                         *)
(* Every asynchronous function is cut at its awaits: one action per        *)
(* segment that runs without yielding to the event loop.  What a remote    *)
(* call answered is an input of the action that first reads the answer.    *)
(***************************************************************************)
EXTENDS Integers, Sequences, FiniteSets, TLC

\* ---------------------------------------------------------------- bounds
\* handleScan invocations in one run
MaxScans == 2
\* elements in one detector response
MaxDet == 2
\* pages of the PDF
MaxPages == 2
\* getExp invocations in one run
MaxCalls == 2

\* ------------------------------------------------------- program constants
\* page.getViewport({ scale: 2.0 })
Scale == 2

\* JavaScript null / undefined
Null == [kind |-> "null"]

\* ------------------------------------------------------------------ inputs
\* Files the user can pick.  An image carries its pixel size; a PDF carries
\* its page count, its native page size and whether it can be rendered:
\* ok = FALSE covers window.pdfjsLib missing, getDocument rejecting and
\* render rejecting.
ImageFiles ==
    {[kind |-> "image", ok |-> TRUE, pages |-> 1, w |-> 800, h |-> 600]}

PdfFiles ==
    {[kind |-> "pdf", ok |-> b, pages |-> MaxPages, w |-> 300, h |-> 400] : b \in BOOLEAN}

OtherFiles == {[kind |-> "other", ok |-> FALSE, pages |-> 1, w |-> 0, h |-> 0]}

Files == ImageFiles \cup PdfFiles \cup OtherFiles

\* What can be typed into the page field: an integer or something parseInt
\* turns into NaN (the empty field).
TypedValues ==
    {[isNaN |-> TRUE, n |-> 0]} \cup {[isNaN |-> FALSE, n |-> k] : k \in -1..(MaxPages + 1)}

\* Elements of a detector response.  The first is well formed, the second has
\* both axes reversed, the third has no box_2d at all.
Elements ==
    { [label |-> "Bar Chart", hasBox |-> TRUE, box_2d |-> <<100, 200, 400, 800>>,
       description |-> "sales by month"],
      [label |-> "Photo", hasBox |-> TRUE, box_2d |-> <<400, 800, 100, 200>>,
       description |-> "a harbour"],
      [label |-> "Map", hasBox |-> FALSE, box_2d |-> <<>>,
       description |-> "a city map"] }

SeqsUpTo(S, n) == UNION {[1..k -> S] : k \in 0..n}

\* Values JSON.parse can produce from the response text: an array of
\* elements, or a value that is no array.
JsonValues ==
    {[type |-> "array", elems |-> s] : s \in SeqsUpTo(Elements, MaxDet)}
    \cup {[type |-> "object", elems |-> <<>>]}

\* Outcomes of ai.models.generateContent for the detection request: the call
\* rejects, the response has no text, the text is no JSON, the text is JSON.
DetectResponses ==
    {[kind |-> "throw", json |-> Null], [kind |-> "notext", json |-> Null],
     [kind |-> "badjson", json |-> Null]}
    \cup {[kind |-> "json", json |-> v] : v \in JsonValues}

\* Outcomes of ai.models.generateContent for the explanation request: the
\* call rejects, the text is empty, the text is an explanation.
ExplainResponses ==
    {[kind |-> "throw", text |-> ""], [kind |-> "text", text |-> ""],
     [kind |-> "text", text |-> "A bar chart of sales."]}

\* ------------------------------------------------------------------- state
VARIABLES
    isGenerating,    \* App: scan in progress flag
    originalImage,   \* App: page image shown in the preview, or Null
    extractedItems,  \* App: published items
    showPreview,     \* App: preview visible
    selectedItem,    \* LivePreview: item whose panel is open, or Null
    explanation,     \* ExplanationPanel: text shown, or Null
    loading,         \* ExplanationPanel: skeleton shown
    scans,           \* invocations of handleScan in flight, oldest first
    calls,           \* invocations of getExp in flight, oldest first
    started,         \* number of handleScan invocations so far
    asked            \* number of getExp invocations so far

vars == <<isGenerating, originalImage, extractedItems, showPreview,
          selectedItem, explanation, loading, scans, calls, started, asked>>

session == <<isGenerating, originalImage, extractedItems, showPreview>>
preview == <<selectedItem, explanation, loading>>

\* ---------------------------------------------------------- pure functions
Min(a, b) == IF a < b THEN a ELSE b
Max(a, b) == IF a > b THEN a ELSE b

\* a JavaScript string held in a slot that may also be null
Str(s) == [kind |-> "string", value |-> s]

\* InputArea: file.type.startsWith('image/') || file.type === 'application/pdf'
AcceptsFile(f) == f.kind = "image" \/ f.kind = "pdf"

\* InputArea: parseInt(e.target.value) || 1   (NaN and 0 are falsy)
ParsePageField(v) == IF v.isNaN \/ v.n = 0 THEN 1 ELSE v.n

\* The (pageNumber, file) pairs handleStartScan can pass to onGenerate: the
\* file went through handleFileSelect, the page through the page field, which
\* is disabled for an image and set back to 1 with every change of file.
ScanRequests ==
    {r \in [file : {f \in Files : AcceptsFile(f)},
            pageNumber : {ParsePageField(v) : v \in TypedValues}] :
        r.file.kind = "image" => r.pageNumber = 1}

\* ActualPageNum without its lower clamp
ActualPageNumNoFloor(pageNum, pageCount) == Min(pageNum, pageCount)

\* getPageImage: Math.min(Math.max(1, pageNum), pageCount)
ActualPageNum(pageNum, pageCount) == Min(Max(1, pageNum), pageCount)

\* pdf.getPage(n) rejects unless 1 <= n <= numPages
GetPageOk(n, pageCount) == n \in 1..pageCount

RasterFailure == [ok |-> FALSE, page |-> Null]

\* getPageImage swallowing its failures: a blank page instead of a throw
getPageImageBlankOnError(file, pageNum) ==
    IF file.kind = "image"
    THEN [ok |-> TRUE,
          page |-> [kind |-> "page", of |-> file.kind, num |-> 1, w |-> file.w, h |-> file.h]]
    ELSE IF file.kind = "pdf" /\ file.ok
    THEN [ok |-> TRUE,
          page |-> [kind |-> "page", of |-> file.kind, num |-> Min(Max(1, pageNum), file.pages),
                    w |-> Scale * file.w, h |-> Scale * file.h]]
    ELSE [ok |-> TRUE,
          page |-> [kind |-> "page", of |-> file.kind, num |-> 1, w |-> 0, h |-> 0]]

\* getPageImage(file, pageNum).  An image is its own single page; a PDF page
\* is rendered at Scale times its native size.  ok = FALSE stands for the
\* thrown error / rejected promise.
getPageImage(file, pageNum) ==
    IF file.kind = "image"
    THEN [ok |-> TRUE,
          page |-> [kind |-> "page", of |-> file.kind, num |-> 1, w |-> file.w, h |-> file.h]]
    ELSE IF file.kind # "pdf" \/ ~file.ok THEN RasterFailure
    ELSE LET n == ActualPageNum(pageNum, file.pages)
         IN  IF ~GetPageOk(n, file.pages) THEN RasterFailure
             ELSE [ok |-> TRUE,
                   page |-> [kind |-> "page", of |-> file.kind, num |-> n,
                             w |-> Scale * file.w, h |-> Scale * file.h]]

\* the value of [] in JavaScript
EmptyDetections == [type |-> "array", elems |-> <<>>]

\* detectVisualElements: [] when the call throws, when the response has no
\* text and when JSON.parse throws; otherwise whatever JSON.parse returned.
detectVisualElements(resp) ==
    IF resp.kind = "throw" THEN EmptyDetections
    ELSE IF resp.kind = "notext" THEN EmptyDetections
    ELSE IF resp.kind = "badjson" THEN EmptyDetections
    ELSE resp.json

\* explainExtractedImage without the fallback for an empty text
explainNoFallback(resp) ==
    IF resp.kind = "throw" THEN "Error generating explanation." ELSE resp.text

\* explainExtractedImage: response.text || "No explanation..." ; the catch
\* block returns its own message.
explainExtractedImage(resp) ==
    IF resp.kind = "throw" THEN "Error generating explanation."
    ELSE IF resp.text = "" THEN "No explanation could be generated."
    ELSE resp.text

\* CropRect scaling both axes by the width of the page
CropRectByWidth(det, img) ==
    [left   |-> det.box_2d[2] * img.w,
     top    |-> det.box_2d[1] * img.w,
     width  |-> (det.box_2d[4] - det.box_2d[2]) * img.w,
     height |-> (det.box_2d[3] - det.box_2d[1]) * img.w]

\* handleScan, loop body: the source rectangle handed to drawImage, in
\* thousandths of a pixel (left = xmin / 1000 * img.width, and so on).
CropRect(det, img) ==
    LET ymin == det.box_2d[1]
        xmin == det.box_2d[2]
        ymax == det.box_2d[3]
        xmax == det.box_2d[4]
    IN  [left   |-> xmin * img.w,
         top    |-> ymin * img.h,
         width  |-> (xmax - xmin) * img.w,
         height |-> (ymax - ymin) * img.h]

\* canvas.width = x (and canvas.height = x) for an extent of t >= 0
\* thousandths of a pixel: the attribute is an integer, so the value is
\* truncated.  x is a double, the product of a rounded quotient: where the
\* exact extent is a whole number of pixels the double can lie just below it
\* ((290 / 1000) * 100 is 28.999999999999996), and then the canvas is one
\* pixel smaller.  The set holds the sizes the canvas can get.
CanvasSize(t) ==
    LET q == t \div 1000
    IN  IF t % 1000 = 0 /\ q > 0 THEN {q - 1, q} ELSE {q}

\* handleScan, loop body: items.push({id, label, dataUrl, description}).
\* crypto.randomUUID() is modelled by the pair (number of the scan, position),
\* which no other item carries; dataUrl is the crop of the page at the
\* rectangle.
MakeItem(det, img, batch, k) ==
    [id |-> <<batch, k>>, label |-> det.label, dataUrl |-> CropRect(det, img),
     description |-> det.description]

\* handleScan: for (const det of detections) { ... }.  Destructuring a missing
\* box_2d throws; ok = FALSE stands for the thrown TypeError.
RECURSIVE ExtractLoop(_, _, _, _)
ExtractLoop(elems, img, batch, items) ==
    IF Len(items) = Len(elems) THEN [ok |-> TRUE, items |-> items]
    ELSE LET k == Len(items) + 1
             det == elems[k]
         IN  IF ~det.hasBox THEN [ok |-> FALSE, items |-> <<>>]
             ELSE ExtractLoop(elems, img, batch, Append(items, MakeItem(det, img, batch, k)))

\* ExtractAll skipping the detections whose box has no area to crop
ExtractAllSkipDegenerate(detections, img, batch) ==
    IF detections.type # "array" THEN [ok |-> FALSE, items |-> <<>>]
    ELSE LET HasArea(det) ==
                 ~det.hasBox \/ (det.box_2d[4] > det.box_2d[2] /\ det.box_2d[3] > det.box_2d[1])
         IN  ExtractLoop(SelectSeq(detections.elems, HasArea), img, batch, <<>>)

\* handleScan lines 72-96: iterating a value that is no array throws.
ExtractAll(detections, img, batch) ==
    IF detections.type # "array" THEN [ok |-> FALSE, items |-> <<>>]
    ELSE ExtractLoop(detections.elems, img, batch, <<>>)

\* ------------------------------------------------------------------- Init
Init ==
    /\ isGenerating = FALSE
    /\ originalImage = Null
    /\ extractedItems = <<>>
    /\ showPreview = FALSE
    /\ selectedItem = Null
    /\ explanation = Null
    /\ loading = TRUE
    /\ scans = <<>>
    /\ calls = <<>>
    /\ started = 0
    /\ asked = 0

\* ---------------------------------------------------------------------- App
\* s without its i-th element: an invocation that has returned
RemoveAt(s, i) == [j \in 1..(Len(s) - 1) |-> IF j < i THEN s[j] ELSE s[j + 1]]

\* A scan in flight is superseded by a Reset and by a newer scan.
Supersede(s) == [s EXCEPT !.stale = TRUE]

\* handleStartScan (its button is disabled while isGenerating) and handleScan
\* up to its first await.
StartScan(req) ==
    /\ ~isGenerating
    /\ started < MaxScans
    /\ started' = started + 1
    /\ isGenerating' = TRUE
    /\ showPreview' = TRUE
    /\ extractedItems' = <<>>
    /\ scans' = Append([i \in DOMAIN scans |-> Supersede(scans[i])],
                       [pc |-> "raster", no |-> started + 1, file |-> req.file,
                        pageNumber |-> req.pageNumber, stale |-> FALSE, page |-> Null])
    /\ UNCHANGED <<originalImage, preview, calls, asked>>

\* handleScan resumes after await getPageImage: either setOriginalImage and
\* the detection call is issued, or the catch and finally blocks run.
RasterReturn(i) ==
    /\ scans[i].pc = "raster"
    /\ LET s == scans[i]
           r == getPageImage(s.file, s.pageNumber)
       IN  IF r.ok
           THEN /\ originalImage' = r.page
                /\ scans' = [scans EXCEPT ![i] = [s EXCEPT !.pc = "detect", !.page = r.page]]
                /\ UNCHANGED <<isGenerating, extractedItems, showPreview>>
           ELSE /\ showPreview' = FALSE
                /\ isGenerating' = FALSE
                /\ scans' = RemoveAt(scans, i)
                /\ UNCHANGED <<originalImage, extractedItems>>
    /\ UNCHANGED <<preview, calls, started, asked>>

\* The remote detection call settles and detectVisualElements returns; the
\* scan goes on to await img.onload.  Nothing reads the detections before
\* img.onload fires, and nothing reads file and pageNumber any more.
DetectReturn(i) ==
    /\ scans[i].pc = "detect"
    /\ scans' = [scans EXCEPT ![i] = [@ EXCEPT !.pc = "load", !.file = Null,
                                               !.pageNumber = 1]]
    /\ UNCHANGED <<session, preview, calls, started, asked>>

\* img.onload fires, resp being what the detection call had answered: the
\* cropping loop runs over detectVisualElements(resp) to its end and the
\* items are published, or it throws and the catch block runs; finally in
\* both cases.
ImgLoad(i, resp) ==
    /\ scans[i].pc = "load"
    /\ LET s == scans[i]
           res == ExtractAll(detectVisualElements(resp), s.page, s.no)
       IN  IF res.ok
           THEN /\ extractedItems' = res.items
                /\ isGenerating' = FALSE
                /\ UNCHANGED <<originalImage, showPreview>>
           ELSE /\ showPreview' = FALSE
                /\ isGenerating' = FALSE
                /\ UNCHANGED <<originalImage, extractedItems>>
    /\ scans' = RemoveAt(scans, i)
    /\ UNCHANGED <<preview, calls, started, asked>>

\* handleReset leaving the page image in place
handleResetKeepsImage ==
    /\ showPreview' = FALSE
    /\ isGenerating' = FALSE
    /\ extractedItems' = <<>>
    /\ scans' = [i \in DOMAIN scans |-> Supersede(scans[i])]
    /\ UNCHANGED <<originalImage, preview, calls, started, asked>>

\* handleReset.  Its button stays in the document, focusable, while the preview
\* is hidden and while the explanation panel lies over it, so nothing guards
\* it.
handleReset ==
    /\ showPreview' = FALSE
    /\ isGenerating' = FALSE
    /\ extractedItems' = <<>>
    /\ originalImage' = Null
    /\ scans' = [i \in DOMAIN scans |-> Supersede(scans[i])]
    /\ UNCHANGED <<preview, calls, started, asked>>

\* -------------------------------------------------------------- LivePreview
\* A click on a card: setSelectedItem(item); the panel mounts with its initial
\* state and its effect starts getExp.  Cards are rendered only when not
\* loading, can be clicked only while the preview is focused, and are covered
\* by the panel while one is open.
SelectItem(k) ==
    /\ showPreview
    /\ ~isGenerating
    /\ selectedItem = Null
    /\ k \in DOMAIN extractedItems
    /\ asked < MaxCalls
    /\ asked' = asked + 1
    /\ selectedItem' = extractedItems[k]
    /\ explanation' = Null
    /\ loading' = TRUE
    /\ calls' = Append(calls, [live |-> TRUE])
    /\ UNCHANGED <<session, scans, started>>

\* onClose: setSelectedItem(null); the panel unmounts, so the calls it
\* started no longer have a component to update.
ClosePanel ==
    /\ selectedItem # Null
    /\ selectedItem' = Null
    /\ explanation' = Null
    /\ loading' = TRUE
    /\ calls' = [c \in DOMAIN calls |-> [calls[c] EXCEPT !.live = FALSE]]
    /\ UNCHANGED <<session, scans, started, asked>>

\* ExplainReturn writing into whatever panel is on screen
ExplainReturnIgnoresUnmount(c, resp) ==
    /\ explanation' = Str(explainExtractedImage(resp))
    /\ loading' = FALSE
    /\ calls' = RemoveAt(calls, c)
    /\ UNCHANGED <<session, selectedItem, scans, started, asked>>

\* The remote explanation call settles with resp, explainExtractedImage
\* returns and getExp resumes in the same turn of the event loop:
\* setExplanation(exp); setLoading(false).  A panel that has unmounted
\* ignores both.
ExplainReturn(c, resp) ==
    /\ IF calls[c].live
       THEN /\ explanation' = Str(explainExtractedImage(resp))
            /\ loading' = FALSE
       ELSE UNCHANGED <<explanation, loading>>
    /\ calls' = RemoveAt(calls, c)
    /\ UNCHANGED <<session, selectedItem, scans, started, asked>>

\* -------------------------------------------------------------------- Next
Next ==
    \/ \E req \in ScanRequests : StartScan(req)
    \/ \E i \in DOMAIN scans : RasterReturn(i)
    \/ \E i \in DOMAIN scans : DetectReturn(i)
    \/ \E i \in DOMAIN scans : \E resp \in DetectResponses : ImgLoad(i, resp)
    \/ handleReset
    \/ \E k \in DOMAIN extractedItems : SelectItem(k)
    \/ ClosePanel
    \/ \E c \in DOMAIN calls : \E resp \in ExplainResponses : ExplainReturn(c, resp)

Spec == Init /\ [][Next]_vars

\* The scan pipeline alone: the preview's panel is never opened.
NextScan ==
    \/ \E req \in ScanRequests : StartScan(req)
    \/ \E i \in DOMAIN scans : RasterReturn(i)
    \/ \E i \in DOMAIN scans : DetectReturn(i)
    \/ \E i \in DOMAIN scans : \E resp \in DetectResponses : ImgLoad(i, resp)
    \/ handleReset

SpecScan == Init /\ [][NextScan]_vars

\* The preview alone, started in each state one successful first scan can
\* leave behind (Ready): the page shown, its items published, no scan in
\* flight.
InitReady ==
    \E req \in ScanRequests : \E resp \in DetectResponses :
        LET r == getPageImage(req.file, req.pageNumber)
            res == ExtractAll(detectVisualElements(resp), r.page, 1)
        IN  /\ r.ok
            /\ res.ok
            /\ isGenerating = FALSE
            /\ originalImage = r.page
            /\ extractedItems = res.items
            /\ showPreview = TRUE
            /\ selectedItem = Null
            /\ explanation = Null
            /\ loading = TRUE
            /\ scans = <<>>
            /\ calls = <<>>
            /\ started = 1
            /\ asked = 0

NextExplain ==
    \/ \E k \in DOMAIN extractedItems : SelectItem(k)
    \/ ClosePanel
    \/ \E c \in DOMAIN calls : \E resp \in ExplainResponses : ExplainReturn(c, resp)

SpecExplain == InitReady /\ [][NextExplain]_vars

\* The cropping loop alone, over a grid of boxes and page sizes: a scan of an
\* image waits for img.onload, the detector having answered one element.
CropCoords == {0, 1, 290, 333, 1000}

CropBoxes == [1..4 -> CropCoords]

CropResponses ==
    {[kind |-> "json",
      json |-> [type |-> "array",
                elems |-> <<[label |-> "Bar Chart", hasBox |-> TRUE, box_2d |-> b,
                             description |-> "sales by month"]>>]] : b \in CropBoxes}

CropPages ==
    {[kind |-> "page", of |-> "image", num |-> 1, w |-> d[1], h |-> d[2]] :
        d \in {<<800, 600>>, <<100, 100>>, <<333, 7>>, <<1, 1>>}}

InitCrop ==
    \E p \in CropPages :
        /\ isGenerating = TRUE
        /\ originalImage = p
        /\ extractedItems = <<>>
        /\ showPreview = TRUE
        /\ selectedItem = Null
        /\ explanation = Null
        /\ loading = TRUE
        /\ scans = <<[pc |-> "load", no |-> 1, file |-> Null, pageNumber |-> 1,
                      stale |-> FALSE, page |-> p]>>
        /\ calls = <<>>
        /\ started = 1
        /\ asked = 0

NextCrop == \E i \in DOMAIN scans : \E resp \in CropResponses : ImgLoad(i, resp)

SpecCrop == InitCrop /\ [][NextCrop]_vars

\* ================================================================== claims
\* Idle: no page image, no items, not scanning, preview hidden.
Idle ==
    /\ originalImage = Null
    /\ extractedItems = <<>>
    /\ ~isGenerating
    /\ ~showPreview

\* A step of scan i: handleScan resumes after one of its awaits.
ScanStep(i) ==
    \/ RasterReturn(i)
    \/ DetectReturn(i)
    \/ \E resp \in DetectResponses : ImgLoad(i, resp)

\* The file can be rasterized: an image, or a PDF that pdf.js renders.
Rasterizable(file) == file.kind = "image" \/ (file.kind = "pdf" /\ file.ok)

\* The schema of the detection request: an array of objects, each with
\* label, box_2d and description.
ConformsToSchema(resp) ==
    /\ resp.kind = "json"
    /\ resp.json.type = "array"
    /\ \A k \in DOMAIN resp.json.elems : resp.json.elems[k].hasBox

\* C1: a scan superseded by a Reset or by a newer scan never writes the page
\* image, the item list, the loading flag or the preview visibility when it
\* later resumes.
C1_StaleScanDiscarded ==
    [][\A i \in DOMAIN scans : (scans[i].stale /\ ScanStep(i)) => UNCHANGED session]_vars

\* C2: a scan that completes on a detection list of length N publishes
\* exactly N items, the item at k carrying the label and the description of
\* detection k.
C2_OneItemPerDetection ==
    [][\A i \in DOMAIN scans : \A resp \in DetectResponses :
          (ImgLoad(i, resp) /\ ConformsToSchema(resp)) =>
              /\ Len(extractedItems') = Len(resp.json.elems)
              /\ \A k \in DOMAIN resp.json.elems :
                    /\ extractedItems'[k].label = resp.json.elems[k].label
                    /\ extractedItems'[k].description = resp.json.elems[k].description]_vars

\* C2 witness: two items are published in the order of their detections, the
\* first from a malformed box.
C2_Witness ==
    /\ Len(extractedItems) = 2
    /\ extractedItems[1].label = "Photo"
    /\ extractedItems[2].label = "Bar Chart"
    /\ ~isGenerating

\* C3: once rasterization has succeeded, a scan that nothing superseded ends
\* in Ready whatever the detector answered: loading cleared, preview shown
\* (the catch block, which raises the failure notice, is what hides it), and
\* an answer without detections leaves the item list empty.
C3_ScanEndsReady ==
    [][\A i \in DOMAIN scans : \A resp \in DetectResponses :
          (ImgLoad(i, resp) /\ ~scans[i].stale) =>
              /\ ~isGenerating'
              /\ showPreview'
              /\ (~ConformsToSchema(resp) => extractedItems' = <<>>)]_vars

\* C4: whenever the remote call errors, returns no text or returns text that
\* does not conform to the schema, detectVisualElements returns the empty
\* detection sequence.
C4_DetectEmptyOnBadResponse ==
    [][\A i \in DOMAIN scans : \A resp \in DetectResponses :
          (ImgLoad(i, resp) /\ ~ConformsToSchema(resp)) =>
              detectVisualElements(resp) = EmptyDetections]_vars

\* The remote explanation call failed: it threw or returned empty text.
ExplainFailed(resp) == resp.kind = "throw" \/ resp.text = ""

\* C5 as stated: after a failed explanation call the panel shows one and
\* the same string, whichever way the call failed.
C5_OneFallbackString ==
    [][\A c \in DOMAIN calls : \A resp \in ExplainResponses :
          (ExplainReturn(c, resp) /\ calls[c].live /\ ExplainFailed(resp)) =>
              \A other \in ExplainResponses :
                  ExplainFailed(other) => explanation' = Str(explainExtractedImage(other))]_vars

\* C5 amended: explain returns "Error generating explanation." when the
\* remote call throws, "No explanation could be generated." when it returns
\* empty text, and the remote text unchanged otherwise.
C5_FallbackPerFailure ==
    [][\A c \in DOMAIN calls : \A resp \in ExplainResponses :
          (ExplainReturn(c, resp) /\ calls[c].live) =>
              /\ ~loading'
              /\ explanation' =
                    Str(IF resp.kind = "throw" THEN "Error generating explanation."
                        ELSE IF resp.text = "" THEN "No explanation could be generated."
                        ELSE resp.text)]_vars

\* C5 witness: the panel of an open item shows the fallback of an empty
\* answer.
C5_Witness ==
    /\ selectedItem # Null
    /\ ~loading
    /\ explanation = Str("No explanation could be generated.")

\* C6: the crop rectangle of every published item has a width and a height
\* that are not negative.
C6_CropNeverNegative ==
    \A k \in DOMAIN extractedItems :
        extractedItems[k].dataUrl.width >= 0 /\ extractedItems[k].dataUrl.height >= 0

\* C7: for a PDF that renders, whatever page index was requested, the scan
\* goes on to detection with a page in 1..pageCount: page 1 for an index
\* below 1, the last page for an index above pageCount, the index itself
\* otherwise.
C7_PageClamped ==
    [][\A i \in DOMAIN scans :
          (RasterReturn(i) /\ scans[i].file.kind = "pdf" /\ scans[i].file.ok) =>
              LET p == scans[i].pageNumber
                  n == scans[i].file.pages
              IN  /\ Len(scans') = Len(scans)
                  /\ scans'[i].pc = "detect"
                  /\ originalImage' = scans'[i].page
                  /\ scans'[i].page.num \in 1..n
                  /\ (p < 1 => scans'[i].page.num = 1)
                  /\ (p > n => scans'[i].page.num = n)
                  /\ (p \in 1..n => scans'[i].page.num = p)]_vars

\* C7 witness: a scan that asked for a page beyond the last one is at its
\* detection call with the last page rendered.
C7_Witness ==
    \E i \in DOMAIN scans :
        /\ scans[i].pc = "detect"
        /\ scans[i].file.kind = "pdf"
        /\ scans[i].pageNumber > scans[i].file.pages
        /\ scans[i].page.num = scans[i].file.pages
        /\ originalImage = scans[i].page

\* C8: a scan whose rasterization fails ends without a detection call; a scan
\* is past its detection call only with a rasterized page; and the item list
\* becomes non-empty only when a scan whose detection call has returned
\* finishes its cropping loop, all items at once.
C8_StepsOrdered ==
    [][/\ \A i \in DOMAIN scans :
             (RasterReturn(i) /\ ~Rasterizable(scans[i].file)) =>
                 Len(scans') = Len(scans) - 1
       /\ \A i \in DOMAIN scans : scans[i].pc \in {"detect", "load"} => scans[i].page # Null
       /\ (extractedItems' # extractedItems /\ extractedItems' # <<>>) =>
             \E i \in DOMAIN scans : \E resp \in DetectResponses :
                 /\ scans[i].pc = "load"
                 /\ ImgLoad(i, resp)
                 /\ detectVisualElements(resp).type = "array"
                 /\ Len(extractedItems') = Len(detectVisualElements(resp).elems)]_vars

\* C8 witness: the detection call of a scan has returned, its cropping loop
\* has not run yet and no item is published.
C8_Witness ==
    \E i \in DOMAIN scans :
        /\ scans[i].pc = "load"
        /\ ~scans[i].stale
        /\ extractedItems = <<>>
        /\ isGenerating

\* C9: Reset is enabled in every state and leaves the session Idle.
C9_ResetLeavesIdle ==
    [][(ENABLED handleReset) /\ (handleReset => Idle')]_vars

\* C9 witness: the session is Idle although the only scan ever started is
\* still in flight: Reset was invoked while Scanning.
C9_Witness ==
    /\ Idle
    /\ started = 1
    /\ Len(scans) = 1
    /\ scans[1].stale

\* C10: when a scan that nothing superseded fails (its catch block runs,
\* which is the one step of a scan that hides the preview), the session is
\* left Idle: not scanning, preview hidden, no items, no page image.
C10_FailureLeavesIdle ==
    [][\A i \in DOMAIN scans :
          (ScanStep(i) /\ ~scans[i].stale /\ showPreview /\ ~showPreview') => Idle']_vars

\* Ready: the page is shown with its published items and no scan runs.
Ready ==
    /\ originalImage # Null
    /\ showPreview
    /\ ~isGenerating

\* C11: in Ready, starting an explanation call, closing its panel and the
\* return of a call (with an explanation or a failure, with other calls in
\* flight or not) leave the page image, the item list, the scanning flag and
\* the preview visibility as they were; a returning call writes only the
\* explanation slot of the panel that started it, and nothing once that
\* panel is gone.
C11_ExplainKeepsSession ==
    [][/\ (Ready /\ (\/ \E k \in DOMAIN extractedItems : SelectItem(k)
                      \/ ClosePanel
                      \/ \E c \in DOMAIN calls : \E resp \in ExplainResponses :
                             ExplainReturn(c, resp)))
             => (UNCHANGED session /\ Ready')
       /\ \A c \in DOMAIN calls : \A resp \in ExplainResponses :
             (ExplainReturn(c, resp) /\ ~calls[c].live) => UNCHANGED preview]_vars

\* C11 witness: two explanation calls are in flight at once in Ready, the
\* older one for a panel that was closed, the newer one for the open panel.
C11_Witness ==
    /\ Ready
    /\ Len(calls) = 2
    /\ ~calls[1].live
    /\ calls[2].live
    /\ selectedItem # Null
    /\ loading

\* 0 <= ymin <= ymax <= 1000 and 0 <= xmin <= xmax <= 1000
WellFormed(b) ==
    /\ 0 <= b[1] /\ b[1] <= b[3] /\ b[3] <= 1000
    /\ 0 <= b[2] /\ b[2] <= b[4] /\ b[4] <= 1000

\* C12: for a well-formed box (ymin, xmin, ymax, xmax) on a page of W x H
\* pixels the crop starts at (xmin * W / 1000, ymin * H / 1000), its canvas is
\* within one pixel of (xmax - xmin) * W / 1000 wide and of
\* (ymax - ymin) * H / 1000 high, and the crop lies inside the page.  Lengths
\* are in thousandths of a pixel.
C12_CropMatchesBox ==
    [][\A i \in DOMAIN scans : \A resp \in CropResponses :
          (ImgLoad(i, resp) /\ WellFormed(resp.json.elems[1].box_2d)) =>
              LET b == resp.json.elems[1].box_2d
                  W == scans[i].page.w
                  H == scans[i].page.h
                  r == extractedItems'[1].dataUrl
              IN  /\ Len(extractedItems') = 1
                  /\ r.left = b[2] * W
                  /\ r.top = b[1] * H
                  /\ \A px \in CanvasSize(r.width) :
                        /\ 1000 * px - (b[4] - b[2]) * W \in -1000..1000
                        /\ r.left + 1000 * px <= 1000 * W
                  /\ \A px \in CanvasSize(r.height) :
                        /\ 1000 * px - (b[3] - b[1]) * H \in -1000..1000
                        /\ r.top + 1000 * px <= 1000 * H
                  /\ r.left >= 0 /\ r.top >= 0
                  /\ r.left + r.width <= 1000 * W
                  /\ r.top + r.height <= 1000 * H]_vars

\* C12 witness: an item cropped from a well-formed box whose width is no
\* whole number of pixels and whose height is the whole page.
C12_Witness ==
    /\ scans = <<>>
    /\ Len(extractedItems) = 1
    /\ originalImage.w = 333 /\ originalImage.h = 7
    /\ extractedItems[1].dataUrl = [left |-> 333, top |-> 0, width |-> 332 * 333, height |-> 7000]

\* C13: while the preview is shown and the most recently started scan (the
\* one nothing has superseded) is still in flight, isGenerating is true.
C13_LoadingWhileScanning ==
    (showPreview /\ \E i \in DOMAIN scans : ~scans[i].stale) => isGenerating

\* C14: the item whose explanation panel is open is none or one of the
\* items the session currently holds.
C14_SelectedIsCurrent ==
    selectedItem = Null \/ \E k \in DOMAIN extractedItems : extractedItems[k] = selectedItem

====
